---- MODULE Spec2Model ----
(***************************************************************************)
(* Model of cleaner.py (EBRL/xnat-cleaner): the XnatSubject class          *)
(* (get_metadata, get_scan_rename_dict, match_scan_types) and the two      *)
(* checks nested in test_xnat_subject (check_duplicate_scans,              *)
(* check_incomplete_scans).                                                *)
(*                                                                         *)
(* Python strings whose characters matter (subject labels, scan types,     *)
(* series descriptions) are tuples of one-character strings, so that       *)
(* slicing (subject[0:3]) and substring tests (s in x) are computed.       *)
(* A pandas DataFrame is the sequence of its rows; a row is a record.      *)
(*                                                                         *)
(* Three specifications:                                                   *)
(*   Spec       the public methods of XnatSubject, called on an object     *)
(*              built by __init__ from what XNAT and the csv hold;         *)
(*   SpecLoop   the loop of match_scan_types (lines 77-84) applied to a    *)
(*              snapshot and a rename_dict drawn from bounded sets;        *)
(*   SpecChecks the two check functions applied to a scan_df drawn from    *)
(*              bounded sets.                                              *)
(***************************************************************************)
EXTENDS Naturals, Sequences, FiniteSets, TLC

VARIABLES
    subject,      \* self.subject: the subject label
    xnat,         \* the remote repository: a sequence of sessions, each the sequence of its scans
    csv,          \* the rows of scan_type_renames.csv
    attrs,        \* the names of the attributes get_metadata has assigned to self
    meta,         \* self.meta
    session_df,   \* self.session_df
    scan_df,      \* self.scan_df
    rename_dict,  \* the rename_dict the loop of lines 77-84 runs on, in SpecLoop
    last          \* what the last operation did (its exception, its remote calls, its output)

vars == <<subject, xnat, csv, attrs, meta, session_df, scan_df, rename_dict, last>>

(***************************************************************************)
(* Bounds of the model.                                                    *)
(***************************************************************************)
MaxSessions == 2     \* sessions XNAT holds for the subject: 0..MaxSessions
MaxSessionScans == 1 \* scans of one session, in Spec
MaxRules == 2        \* rows of the csv, in Spec
MaxScans == 2        \* rows of scan_df, in SpecLoop
MaxCheckScans == 3   \* rows of scan_df, in SpecChecks
MaxRuns == 2         \* method calls made on one object

(***************************************************************************)
(* Strings.                                                                *)
(***************************************************************************)
LD4001 == <<"L", "D", "4", "0", "0", "1">>
RD2001 == <<"R", "D", "2", "0", "0", "1">>
LD4 == <<"L", "D", "4">>
RD2 == <<"R", "D", "2">>
T1 == <<"T", "1">>
T2 == <<"T", "2">>
raw == <<"r", "a", "w">>
T1w == <<"T", "1", "w">>
T2w == <<"T", "2", "w">>
incomplete_scan == <<"i", "n", "c", "o", "m", "p", "l", "e", "t", "e", "_", "s", "c", "a", "n">>
Incomplete == <<"I", "n", "c", "o", "m", "p", "l", "e", "t", "e">>
BAD_T1 == <<"B", "A", "D", "_", "T", "1">>
T1_bad == <<"T", "1", "_", "b", "a", "d">>

Subjects == {LD4001, RD2001}
Projects == {LD4, RD2}
SeriesDescriptions == {T1, T2}
LoopScanTypes == {raw, T1w}
UpdatedTypes == {T1w, T2w}
CheckTypes == {T1w, T2w, incomplete_scan, Incomplete, BAD_T1, T1_bad}

NoError == "none"

\* What the model holds for an attribute that is not assigned (attrs tells), and
\* for the dict of a call that raised.
NoMeta == [project |-> <<>>, nsessions |-> 0]
NoFrame == <<>>
EmptyDict == [k \in {} |-> <<>>]

\* Sequences over S of length 0..n.
SeqUpTo(S, n) == UNION {[1..k -> S] : k \in 0..n}

\* Python's s[0:n].
Slice(s, n) == SubSeq(s, 1, IF Len(s) < n THEN Len(s) ELSE n)

\* Python's `s in x` for strings: s is a substring of x.
Contains(s, x) == \E i \in 1..(Len(x) + 1) : i + Len(s) - 1 <= Len(x) /\ SubSeq(x, i, i + Len(s) - 1) = s

(***************************************************************************)
(* XNAT (dax.XnatUtils).  A scan is [ID, series_description, scan_type];   *)
(* its ID is unique in the repository.                                     *)
(***************************************************************************)
ScanID(sess, k) == 10 * sess + k

\* The scans of session `sess` given their (series_description, scan_type) pairs.
MkScans(sess, pairs) ==
    [k \in 1..Len(pairs) |->
        [ID |-> ScanID(sess, k), series_description |-> pairs[k][1], scan_type |-> pairs[k][2]]]

\* dax.XnatUtils.list_sessions: one dict per session.
list_sessions(x) == [k \in 1..Len(x) |-> [label |-> k, ID |-> k]]

\* dax.XnatUtils.list_scans: the scans of the session with that label.
list_scans(x, label) == x[label]

\* interface.select(ID).attrs.set('scan_type', new_type), when it succeeds.
set_scan_type(x, id, new_type) ==
    [s \in 1..Len(x) |->
        [k \in 1..Len(x[s]) |->
            IF x[s][k].ID = id THEN [x[s][k] EXCEPT !.scan_type = new_type] ELSE x[s][k]]]

\* The scan type XNAT records for the scan with this ID.
RemoteType(x, id) ==
    LET s == CHOOSE s \in 1..Len(x) : \E k \in 1..Len(x[s]) : x[s][k].ID = id
        k == CHOOSE k \in 1..Len(x[s]) : x[s][k].ID = id
    IN x[s][k].scan_type

RECURSIVE Concat(_)
Concat(ss) == IF ss = <<>> THEN <<>> ELSE Head(ss) \o Concat(Tail(ss))

(***************************************************************************)
(* XnatSubject.get_metadata (lines 41-69).                                 *)
(***************************************************************************)
get_metadata_too_many(subj, x) ==
    LET session_data == list_sessions(x)
        scan_data == Concat([k \in 1..Len(session_data) |-> list_scans(x, session_data[k].label)])
    IN IF Len(session_data) > 1
       THEN [raised |-> "ValueError", attrs |-> {},
             meta |-> NoMeta, session_df |-> NoFrame, scan_df |-> NoFrame]
       ELSE [raised |-> NoError, attrs |-> {"meta", "session_df", "scan_df"},
             meta |-> [project |-> Slice(subj, 3), nsessions |-> Len(session_data)],
             session_df |-> session_data,
             scan_df |-> scan_data]

get_metadata(subj, x) ==
    LET session_data == list_sessions(x)
        \* lines 51-55: the scans of every session, in session order
        scan_data == Concat([k \in 1..Len(session_data) |-> list_scans(x, session_data[k].label)])
    IN IF Len(session_data) # 1
       THEN [raised |-> "ValueError", attrs |-> {},
             meta |-> NoMeta, session_df |-> NoFrame, scan_df |-> NoFrame]
       ELSE [raised |-> NoError, attrs |-> {"meta", "session_df", "scan_df"},
             meta |-> [project |-> Slice(subj, 3), nsessions |-> Len(session_data)],
             session_df |-> session_data,
             scan_df |-> scan_data]

(***************************************************************************)
(* XnatSubject.get_scan_rename_dict (lines 87-97).  A csv row is           *)
(* [project, series_description, scan_type, updated_scan_type].            *)
(***************************************************************************)
\* The column labels of the DataFrame pandas.read_csv returns (line 91).
Columns == <<"project", "series_description", "scan_type", "updated_scan_type">>

\* df.loc[df.project == project]: the rows of that project, still a DataFrame.
loc_project(df, project) == SelectSeq(df, LAMBDA row : row.project = project)

\* iter(DataFrame): pandas iterates a DataFrame over its column labels, whatever
\* its rows are (line 94 calls neither iterrows() nor itertuples()).
iter_dataframe(df) == Columns

\* Lines 93-97.  Each item of the iteration is unpacked into (ii, s): a string
\* that does not have exactly two characters raises ValueError; one that has
\* two binds s to a one-character string, and s.series_description raises
\* AttributeError.  The items being column labels, the assignment of line 95
\* is never reached.
rename_dict_loop(items, d) ==
    IF items = <<>>
    THEN [raised |-> NoError, dict |-> d]
    ELSE IF Len(Head(items)) # 2
         THEN [raised |-> "ValueError", dict |-> EmptyDict]
         ELSE [raised |-> "AttributeError", dict |-> EmptyDict]

get_scan_rename_dict(df, m) ==
    rename_dict_loop(iter_dataframe(loc_project(df, m.project)), EmptyDict)

(***************************************************************************)
(* XnatSubject.match_scan_types (lines 72-84).                             *)
(***************************************************************************)
\* line 78
scan_tuple(scan) == <<scan.series_description, scan.scan_type>>

\* line 79, with a match on the series description alone
key_in_dict_partial(key, d) == \E k \in DOMAIN d : k[1] = key[1]

\* line 79: scan_tuple in rename_dict.keys()
key_in_dict(key, d) == key \in DOMAIN d

\* line 83, with the flag ignored
commit_always(overwrite) == TRUE

\* line 83: overwrite == True
commit_selected(overwrite) == overwrite = TRUE

\* Lines 77-84: the loop over the rows of scan_df.  `failing` is the set of scan
\* IDs for which XNAT refuses the attrs.set call (the call raises); `x` is XNAT's
\* content, `calls` the attrs.set calls made so far, `matched` the scans for
\* which line 80 ran.  The loop has no try/except and never assigns to scan_df.
RECURSIVE match_loop(_, _, _, _, _, _, _)
match_loop(rows, d, overwrite, failing, x, calls, matched) ==
    IF rows = <<>>
    THEN [raised |-> NoError, raised_at |-> 0, xnat |-> x, calls |-> calls, matched |-> matched]
    ELSE LET scan == Head(rows)
             key == scan_tuple(scan)
         IN IF ~key_in_dict(key, d)
            THEN match_loop(Tail(rows), d, overwrite, failing, x, calls, matched)
            ELSE IF key \notin DOMAIN d
            THEN \* line 80: rename_dict[scan_tuple] of an absent key
                 [raised |-> "KeyError", raised_at |-> scan.ID, xnat |-> x,
                  calls |-> calls, matched |-> matched]
            ELSE LET new_type == d[key]
                     matched2 == Append(matched, [ID |-> scan.ID, new_type |-> new_type])
                 IN IF ~commit_selected(overwrite)
                    THEN match_loop(Tail(rows), d, overwrite, failing, x, calls, matched2)
                    ELSE IF scan.ID \in failing
                    THEN [raised |-> "RemoteError", raised_at |-> scan.ID, xnat |-> x,
                          calls |-> Append(calls, [ID |-> scan.ID, new_type |-> new_type, ok |-> FALSE]),
                          matched |-> matched2]
                    ELSE match_loop(Tail(rows), d, overwrite, failing,
                                    set_scan_type(x, scan.ID, new_type),
                                    Append(calls, [ID |-> scan.ID, new_type |-> new_type, ok |-> TRUE]),
                                    matched2)

\* Lines 72-84: line 75 builds the dict, and an exception it raises ends the call.
match_scan_types(df, csvrows, m, overwrite, failing, x) ==
    LET r == get_scan_rename_dict(csvrows, m)
    IN IF r.raised # NoError
       THEN [raised |-> r.raised, raised_at |-> 0, xnat |-> x, calls |-> <<>>,
             matched |-> <<>>, dict |-> EmptyDict]
       ELSE LET l == match_loop(df, r.dict, overwrite, failing, x, <<>>, <<>>)
            IN [raised |-> l.raised, raised_at |-> l.raised_at, xnat |-> l.xnat,
                calls |-> l.calls, matched |-> l.matched, dict |-> r.dict]

(***************************************************************************)
(* The checks of test_xnat_subject (lines 112-134).  pandas.DataFrame([])  *)
(* has no columns, so df.scan_type raises AttributeError on an empty       *)
(* scan_df (lines 115 and 128, outside the try blocks).                    *)
(***************************************************************************)
\* line 126
bad_strings == <<<<"i", "n", "c">>, <<"b", "a", "d">>,
                 <<"i", "n", "c", "o", "m", "p", "l", "e", "t", "e">>>>

\* Series.duplicated(): True for a value seen in an earlier row (keep='first').
duplicated(col) == [i \in 1..Len(col) |-> \E j \in 1..(i - 1) : col[j] = col[i]]

\* The row labels where the mask is True, in order.
RECURSIVE rows_where(_, _)
rows_where(mask, n) ==
    IF n = 0 THEN <<>>
    ELSE IF mask[n] THEN Append(rows_where(mask, n - 1), n) ELSE rows_where(mask, n - 1)

\* Lines 112-120: `report` holds the row labels of the rows printed.
check_duplicate_scans(df) ==
    IF df = <<>>
    THEN [raised |-> "AttributeError", passed |-> FALSE, report |-> <<>>]
    ELSE LET col == [i \in 1..Len(df) |-> df[i].scan_type]
             duplicates == rows_where(duplicated(col), Len(df))
         IN [raised |-> NoError, passed |-> Len(duplicates) = 0, report |-> duplicates]

\* Lines 123-134.
check_incomplete_scans(df) ==
    IF df = <<>>
    THEN [raised |-> "AttributeError", passed |-> FALSE, report |-> <<>>]
    ELSE LET bad_scans == [i \in 1..Len(df) |->
                             \E k \in 1..Len(bad_strings) : Contains(bad_strings[k], df[i].scan_type)]
             n_bad == Cardinality({i \in 1..Len(df) : bad_scans[i]})
         IN [raised |-> NoError, passed |-> n_bad = 0, report |-> rows_where(bad_scans, Len(df))]

(***************************************************************************)
(* State and actions.                                                      *)
(***************************************************************************)
\* `last` before any operation.  run counts the method calls made; pre_xnat and
\* pre_scan_df are XNAT's content and scan_df as the operation found them;
\* prior_ok says that the operation before this one was a committing match all
\* of whose remote calls succeeded.
NoLast ==
    [op |-> "none", run |-> 0, overwrite |-> FALSE, raised |-> NoError, raised_at |-> 0,
     calls |-> <<>>, matched |-> <<>>, ret |-> EmptyDict, passed |-> FALSE, report |-> <<>>,
     pre_xnat |-> <<>>, pre_scan_df |-> NoFrame, prior_ok |-> FALSE]

ScanIDs(df) == {df[i].ID : i \in 1..Len(df)}

\* XnatSubject(subject_label) (lines 23-38): __init__ ends with get_metadata,
\* whose exception leaves no object.
New ==
    /\ last.op = "none"
    /\ LET r == get_metadata(subject, xnat)
       IN /\ attrs' = r.attrs
          /\ meta' = r.meta
          /\ session_df' = r.session_df
          /\ scan_df' = r.scan_df
          /\ last' = [NoLast EXCEPT !.op = "get_metadata", !.raised = r.raised, !.pre_xnat = xnat]
    /\ UNCHANGED <<subject, xnat, csv, rename_dict>>

\* subject.get_scan_rename_dict()
GetScanRenameDict ==
    /\ "meta" \in attrs
    /\ last.run < MaxRuns
    /\ LET r == get_scan_rename_dict(csv, meta)
       IN last' = [NoLast EXCEPT !.op = "get_scan_rename_dict", !.run = last.run + 1,
                                 !.raised = r.raised, !.ret = r.dict,
                                 !.pre_xnat = xnat, !.pre_scan_df = scan_df]
    /\ UNCHANGED <<subject, xnat, csv, attrs, meta, session_df, scan_df, rename_dict>>

\* subject.match_scan_types(overwrite)
MatchScanTypes ==
    /\ "meta" \in attrs
    /\ last.run < MaxRuns
    /\ \E overwrite \in BOOLEAN, failing \in SUBSET ScanIDs(scan_df) :
          LET r == match_scan_types(scan_df, csv, meta, overwrite, failing, xnat)
          IN /\ xnat' = r.xnat
             /\ last' = [NoLast EXCEPT !.op = "match_scan_types", !.run = last.run + 1,
                                       !.overwrite = overwrite, !.raised = r.raised,
                                       !.raised_at = r.raised_at, !.calls = r.calls,
                                       !.matched = r.matched,
                                       !.pre_xnat = xnat, !.pre_scan_df = scan_df,
                                       !.prior_ok = /\ last.op = "match_scan_types"
                                                    /\ last.overwrite
                                                    /\ last.raised = NoError]
    /\ UNCHANGED <<subject, csv, attrs, meta, session_df, scan_df, rename_dict>>

\* Lines 77-84 run on the given rename_dict.
MatchLoop ==
    /\ last.run < MaxRuns
    /\ \E overwrite \in BOOLEAN, failing \in SUBSET ScanIDs(scan_df) :
          LET l == match_loop(scan_df, rename_dict, overwrite, failing, xnat, <<>>, <<>>)
          IN /\ xnat' = l.xnat
             /\ last' = [NoLast EXCEPT !.op = "match_loop", !.run = last.run + 1,
                                       !.overwrite = overwrite, !.raised = l.raised,
                                       !.raised_at = l.raised_at, !.calls = l.calls,
                                       !.matched = l.matched,
                                       !.pre_xnat = xnat, !.pre_scan_df = scan_df,
                                       !.prior_ok = /\ last.op = "match_loop"
                                                    /\ last.overwrite
                                                    /\ last.raised = NoError]
    /\ UNCHANGED <<subject, csv, attrs, meta, session_df, scan_df, rename_dict>>

\* check_duplicate_scans(xnat_subject)
CheckDuplicateScans ==
    /\ last.run < MaxRuns
    /\ LET r == check_duplicate_scans(scan_df)
       IN last' = [NoLast EXCEPT !.op = "check_duplicate_scans", !.run = last.run + 1,
                                 !.raised = r.raised, !.passed = r.passed, !.report = r.report,
                                 !.pre_xnat = xnat, !.pre_scan_df = scan_df]
    /\ UNCHANGED <<subject, xnat, csv, attrs, meta, session_df, scan_df, rename_dict>>

\* check_incomplete_scans(xnat_subject)
CheckIncompleteScans ==
    /\ last.run < MaxRuns
    /\ LET r == check_incomplete_scans(scan_df)
       IN last' = [NoLast EXCEPT !.op = "check_incomplete_scans", !.run = last.run + 1,
                                 !.raised = r.raised, !.passed = r.passed, !.report = r.report,
                                 !.pre_xnat = xnat, !.pre_scan_df = scan_df]
    /\ UNCHANGED <<subject, xnat, csv, attrs, meta, session_df, scan_df, rename_dict>>

(***************************************************************************)
(* Spec: the class, from what XNAT and the csv hold.                       *)
(***************************************************************************)
CsvRows ==
    [project : Projects, series_description : {T1}, scan_type : {raw},
     updated_scan_type : UpdatedTypes]

SessionScans == {MkScans(0, p) : p \in SeqUpTo({T1} \X LoopScanTypes, MaxSessionScans)}

\* XNAT's content: session k holds scans with the IDs of session k.
Repositories ==
    {[k \in 1..Len(ss) |-> [i \in 1..Len(ss[k]) |-> [ss[k][i] EXCEPT !.ID = ScanID(k, i)]]] :
        ss \in SeqUpTo(SessionScans, MaxSessions)}

Init ==
    /\ subject \in Subjects
    /\ xnat \in Repositories
    /\ csv \in SeqUpTo(CsvRows, MaxRules)
    /\ attrs = {}
    /\ meta = NoMeta
    /\ session_df = NoFrame
    /\ scan_df = NoFrame
    /\ rename_dict = EmptyDict
    /\ last = NoLast

Next == New \/ GetScanRenameDict \/ MatchScanTypes

Spec == Init /\ [][Next]_vars

(***************************************************************************)
(* SpecLoop: the loop of match_scan_types on a loaded snapshot and a       *)
(* rename_dict.  The loop is applied to a given rename_dict because        *)
(* get_scan_rename_dict (line 75) returns none in Spec.                    *)
(***************************************************************************)
LoopKeys == {<<T1, raw>>, <<T2, raw>>}

LoopDicts == UNION {[K -> UpdatedTypes] : K \in SUBSET LoopKeys}

InitLoop ==
    /\ subject = LD4001
    /\ scan_df \in {MkScans(1, p) : p \in SeqUpTo(SeriesDescriptions \X LoopScanTypes, MaxScans)}
    /\ xnat = <<scan_df>>
    /\ csv = <<>>
    /\ attrs = get_metadata(subject, xnat).attrs
    /\ meta = get_metadata(subject, xnat).meta
    /\ session_df = list_sessions(xnat)
    /\ rename_dict \in LoopDicts
    /\ last = NoLast

NextLoop == MatchLoop

SpecLoop == InitLoop /\ [][NextLoop]_vars

(***************************************************************************)
(* SpecChecks: the two checks on a loaded snapshot.  They are applied      *)
(* directly: test_xnat_subject reads the unbound name x at line 137,       *)
(* before it calls them at lines 138-139.                                  *)
(***************************************************************************)
InitChecks ==
    /\ subject = LD4001
    /\ scan_df \in {MkScans(1, p) : p \in SeqUpTo(SeriesDescriptions \X CheckTypes, MaxCheckScans)}
    /\ xnat = <<scan_df>>
    /\ csv = <<>>
    /\ attrs = get_metadata(subject, xnat).attrs
    /\ meta = get_metadata(subject, xnat).meta
    /\ session_df = list_sessions(xnat)
    /\ rename_dict = EmptyDict
    /\ last = NoLast

NextChecks == CheckDuplicateScans \/ CheckIncompleteScans

SpecChecks == InitChecks /\ [][NextChecks]_vars

(***************************************************************************)
(* Properties.                                                             *)
(***************************************************************************)
Range(f) == {f[i] : i \in DOMAIN f}

\* The rows of scan_df whose (series_description, scan_type) pair is a key of d.
MatchedRows(df, d) == {i \in 1..Len(df) : scan_tuple(df[i]) \in DOMAIN d}

\* C1: get_metadata succeeds, leaving a snapshot with exactly one session, when
\* XNAT lists exactly one session for the subject; with 0 or with 2 or more
\* sessions it raises the too-many-sessions error (a ValueError) and assigns no
\* snapshot attribute.  A snapshot that exists has exactly one session.
C1_OneSessionOrError ==
    /\ (last.op = "get_metadata" /\ Len(list_sessions(xnat)) = 1)
          => /\ last.raised = NoError
             /\ attrs = {"meta", "session_df", "scan_df"}
             /\ Len(session_df) = 1
             /\ meta.nsessions = 1
             /\ scan_df = list_scans(xnat, 1)
    /\ (last.op = "get_metadata" /\ Len(list_sessions(xnat)) # 1)
          => /\ last.raised = "ValueError"
             /\ attrs = {}
    /\ ("session_df" \in attrs => Len(session_df) = 1)

\* C1 witness: XNAT lists no session and the load has failed.
C1_Witness ==
    /\ last.op = "get_metadata"
    /\ Len(list_sessions(xnat)) = 0
    /\ last.raised = "ValueError"

\* C2: a run of the matching loop with overwrite = False makes no remote
\* set-scan-type call, leaves XNAT as it was, and leaves every scan_type of
\* scan_df as it was, however many scans match.
C2_DryRunChangesNothing ==
    (last.op = "match_loop" /\ ~last.overwrite)
        => /\ last.calls = <<>>
           /\ xnat = last.pre_xnat
           /\ Len(scan_df) = Len(last.pre_scan_df)
           /\ \A i \in 1..Len(scan_df) : scan_df[i].scan_type = last.pre_scan_df[i].scan_type

\* C2 witness: a dry run over a snapshot in which two or more scans match.
C2_Witness ==
    /\ last.op = "match_loop"
    /\ ~last.overwrite
    /\ Cardinality(MatchedRows(last.pre_scan_df, rename_dict)) >= 2
    /\ Len(last.matched) >= 2

\* C3: after a committing run in which no call failed, every scan whose key is
\* in the index has been set on XNAT (by its ID) to the index's value for that
\* key, and scan_df agrees with XNAT on the type of every scan.
C3_CommitKeepsSnapshotInStep ==
    (last.op = "match_loop" /\ last.overwrite /\ last.raised = NoError)
        => /\ \A i \in MatchedRows(last.pre_scan_df, rename_dict) :
                 [ID |-> last.pre_scan_df[i].ID,
                  new_type |-> rename_dict[scan_tuple(last.pre_scan_df[i])],
                  ok |-> TRUE] \in Range(last.calls)
           /\ \A i \in 1..Len(scan_df) : scan_df[i].scan_type = RemoteType(xnat, scan_df[i].ID)

\* C4: a committing run that follows a committing run all of whose remote calls
\* succeeded (same snapshot, same index) makes no remote call and changes no
\* scan type, in scan_df or on XNAT.
C4_SecondCommitIsIdle ==
    (last.op = "match_loop" /\ last.overwrite /\ last.prior_ok)
        => /\ last.calls = <<>>
           /\ xnat = last.pre_xnat
           /\ scan_df = last.pre_scan_df

\* C5: in a committing run in which the remote call fails for a matched scan
\* that has a matched scan after it, the run does not abort, every matched scan
\* still has its remote call attempted, and the renames that succeeded stay
\* applied on XNAT.
C5_FailureDoesNotAbort ==
    (/\ last.op = "match_loop"
     /\ last.overwrite
     /\ \E c \in Range(last.calls) :
           /\ ~c.ok
           /\ \E i, j \in MatchedRows(last.pre_scan_df, rename_dict) :
                 i < j /\ last.pre_scan_df[i].ID = c.ID)
        => /\ last.raised = NoError
           /\ \A i \in MatchedRows(last.pre_scan_df, rename_dict) :
                 \E c \in Range(last.calls) : c.ID = last.pre_scan_df[i].ID
           /\ \A c \in Range(last.calls) : c.ok => RemoteType(xnat, c.ID) = c.new_type

\* The rows of the table that belong to the project.
ProjectRows(df, project) == {i \in 1..Len(df) : df[i].project = project}

RuleKey(row) == <<row.series_description, row.scan_type>>

\* C6: get_scan_rename_dict returns an index whose keys are exactly the
\* (series_description, scan_type) pairs of the rules of the subject's project,
\* each mapped to the updated_scan_type of such a rule; no rule of another
\* project contributes; with no rule of the project the index is empty.
C6_IndexOfProjectRules ==
    last.op = "get_scan_rename_dict"
        => /\ last.raised = NoError
           /\ DOMAIN last.ret = {RuleKey(csv[i]) : i \in ProjectRows(csv, meta.project)}
           /\ \A key \in DOMAIN last.ret :
                 \E i \in ProjectRows(csv, meta.project) :
                    RuleKey(csv[i]) = key /\ last.ret[key] = csv[i].updated_scan_type

\* C9: when two rules of the subject's project have the same key, the index
\* get_scan_rename_dict returns (the code has no strict mode) maps that key to
\* the updated_scan_type of the last such row of the table.
C9_DuplicateKeyLastWins ==
    (/\ last.op = "get_scan_rename_dict"
     /\ \E i, j \in ProjectRows(csv, meta.project) : i < j /\ RuleKey(csv[i]) = RuleKey(csv[j]))
        => /\ last.raised = NoError
           /\ \A i \in ProjectRows(csv, meta.project) :
                 (\A j \in ProjectRows(csv, meta.project) :
                     RuleKey(csv[j]) = RuleKey(csv[i]) => j <= i)
                 => /\ RuleKey(csv[i]) \in DOMAIN last.ret
                    /\ last.ret[RuleKey(csv[i])] = csv[i].updated_scan_type

\* The rows whose scan_type is also the scan_type of another row.
RepeatedRows(df) == {i \in 1..Len(df) : \E j \in 1..Len(df) : j # i /\ df[j].scan_type = df[i].scan_type}

\* C7: on a snapshot with at least one scan, the duplicate check passes iff no
\* scan_type occurs in more than one scan, and when it fails it reports every
\* scan whose scan_type occurs more than once, first occurrences included.
C7_DuplicatesAllReported ==
    (last.op = "check_duplicate_scans" /\ scan_df # <<>>)
        => /\ last.raised = NoError
           /\ last.passed <=> RepeatedRows(scan_df) = {}
           /\ ~last.passed => Range(last.report) = RepeatedRows(scan_df)

\* str.lower() on the characters the model's scan types use.
LowerChar(c) ==
    CASE c = "I" -> "i"
      [] c = "B" -> "b"
      [] c = "A" -> "a"
      [] c = "D" -> "d"
      [] c = "T" -> "t"
      [] OTHER -> c

Lower(x) == [i \in 1..Len(x) |-> LowerChar(x[i])]

\* The rows whose scan_type, lower-cased, contains a marker string.
MarkedRows(df) ==
    {i \in 1..Len(df) : \E k \in 1..Len(bad_strings) : Contains(bad_strings[k], Lower(df[i].scan_type))}

\* C8: on a snapshot with at least one scan, the incomplete-scan check fails iff
\* some scan_type contains a marker string compared case-insensitively, and it
\* reports exactly the scans that do.
C8_MarkersCaseInsensitive ==
    (last.op = "check_incomplete_scans" /\ scan_df # <<>>)
        => /\ last.raised = NoError
           /\ ~last.passed <=> MarkedRows(scan_df) # {}
           /\ Range(last.report) = MarkedRows(scan_df)

\* C10: in every run of the matching loop, committing or not, a scan whose
\* (series_description, scan_type) pair is not a key of the index gets no remote
\* call, keeps its type on XNAT and in scan_df, is not among the matches, and is
\* not where the run raises; a pair that shares only one component with a key
\* is no match.
C10_UnmatchedUntouched ==
    last.op = "match_loop"
        => \A i \in 1..Len(last.pre_scan_df) :
              LET scan == last.pre_scan_df[i]
              IN <<scan.series_description, scan.scan_type>> \notin DOMAIN rename_dict
                    => /\ \A c \in Range(last.calls) : c.ID # scan.ID
                       /\ \A m \in Range(last.matched) : m.ID # scan.ID
                       /\ RemoteType(xnat, scan.ID) = RemoteType(last.pre_xnat, scan.ID)
                       /\ scan_df[i] = scan
                       /\ last.raised_at # scan.ID

\* C10 witness: a committing run that renamed one scan on XNAT and passed over
\* a later scan with the same series description whose type is no key.
C10_Witness ==
    /\ last.op = "match_loop"
    /\ last.overwrite
    /\ last.raised = NoError
    /\ \E i, j \in 1..Len(scan_df) :
          /\ i < j
          /\ i \in MatchedRows(last.pre_scan_df, rename_dict)
          /\ j \notin MatchedRows(last.pre_scan_df, rename_dict)
          /\ scan_df[i].series_description = scan_df[j].series_description
          /\ RemoteType(xnat, scan_df[i].ID) # RemoteType(last.pre_xnat, scan_df[i].ID)

====
